---- MODULE Spec2Model ----
(***************************************************************************)
(* Helply: application-command registry and query engine.                  *)
(*                                                                         *)
(* Three builders of the registry are modelled, selected by `adapter`:     *)
(*   "helply"   the Helply class of helply.py (registry: dict keyed by id) *)
(*   "disnake"  DisnakeCommandHandler (registry: list)                     *)
(*   "nextcord" NextcordCommandHandler (registry: list)                    *)
(* The query engine (get_all_commands) is the one of helply.py.            *)
(*                                                                         *)
(* Encodings: Optional[T] is a sequence of length 0 (None) or 1;           *)
(* guild_id 0 stands for None; a Permissions value is the set of its flag  *)
(* names; a localization table is a set of <<locale, text>> pairs.         *)
(***************************************************************************)
EXTENDS Integers, Sequences, FiniteSets, TLC

VARIABLES
    bot,                \* the host: registered raw commands and the names with no invokable
    adapter,            \* which builder class this instance is
    commands_to_ignore, \* self.commands_to_ignore
    app_commands,       \* self._app_commands, in insertion order
    built,              \* whether a build (_walk_app_commands) has run
    query,              \* arguments of the get_all_commands call that is returning (Optional)
    result,             \* what that call returns
    raised,             \* the exception the last build ended with (Optional)
    named,              \* the get_command_named call that is returning, with its value (Optional)
    categories,         \* what the get_categories call that is returning returns (Optional)
    role_checks,        \* roles_from_checks: checks.roles of its `checks` argument
    guild,              \* roles_from_checks: its `guild` argument
    resolved,           \* roles_from_checks: the list it returns (Optional)
    command_checks,     \* _parse_checks: command.checks, the predicates of its argument
    parsed,             \* _parse_checks: the CommandChecks it returns (Optional)
    parse_raised,       \* _parse_checks: the exception it ends with (Optional)
    help_commands,      \* commands_overview_embeds: its `commands` argument
    max_field_chars,    \* commands_overview_embeds: its max_field_chars argument
    max_fields,         \* commands_overview_embeds: its max_fields argument
    overview,           \* commands_overview_embeds: the embeds it returns (Optional)
    paginator           \* a Paginator view and the message it is attached to (Optional)

hostVars ==
    <<bot, adapter, commands_to_ignore, app_commands, built, query, result, raised, named,
      categories>>

rolesVars == <<role_checks, guild, resolved>>

checksVars == <<command_checks, parsed, parse_raised>>

embedsVars == <<help_commands, max_field_chars, max_fields, overview>>

utilVars == <<rolesVars, checksVars, embedsVars, paginator>>

vars == <<hostVars, utilVars>>

(***************************************************************************)
(* Bounds                                                                  *)
(***************************************************************************)
MaxCmds == 2

None == <<>>

Some(x) == <<x>>

\* an int, and a str as the sequence of its characters
IntValue(n) == [t |-> "int", v |-> n]

StrValue(chars) == [t |-> "str", v |-> chars]

Guilds == <<1, 2>>

Locales == {"fr"}

Flags == {"kick_members"}

\* cooldown buckets as the host prints them, and the two value types
BucketPrefix == <<"B","u","c","k","e","t","T","y","p","e",".">>

DefaultWord == <<"d","e","f","a","u","l","t">>

GlobalWord == <<"g","l","o","b","a","l">>

UserWord == <<"u","s","e","r">>

\* str(BucketType.default), str(BucketType.user)
BucketDefault == BucketPrefix \o DefaultWord

BucketUser == BucketPrefix \o UserWord

Cooldown(rate, per, type) == [rate |-> rate, per |-> per, type |-> type]

CommandChecks(permissions, roles) == [permissions |-> permissions, roles |-> roles]

\* the predicate commands.has_permissions(kick_members=True) leaves in
\* command.checks: its qualified name up to the first ".", and its closure
HasKickPermission ==
    [name |-> <<"h","a","s","_","p","e","r","m","i","s","s","i","o","n","s">>,
     closure |-> << [t |-> "dict",
                     v |-> << << <<"k","i","c","k","_","m","e","m","b","e","r","s">>, TRUE >> >>] >>]

(***************************************************************************)
(* Raw host objects.  A raw top-level command joins the wire-level command *)
(* (id, name, guild_id, dm_permission, nsfw, options) with the attributes  *)
(* of its invokable (description, extras, cog, checks, cooldown,           *)
(* default_member_permissions).  An option node does the same for a        *)
(* sub-command, a sub-command-group or a plain argument.                   *)
(***************************************************************************)
NoLoc == {}

Arg(name, required) ==
    [name |-> name, type |-> "string", options |-> <<>>, description |-> "arg " \o name,
     required |-> required, help |-> "", checks |-> <<>>, cooldown |-> None,
     name_localizations |-> NoLoc, description_localizations |-> NoLoc]

Sub(name, desc, opts) ==
    [name |-> name, type |-> "sub_command", options |-> opts, description |-> desc,
     required |-> FALSE, help |-> "", checks |-> <<>>, cooldown |-> None,
     name_localizations |-> NoLoc, description_localizations |-> NoLoc]

Group(name, opts) ==
    [name |-> name, type |-> "sub_command_group", options |-> opts, description |-> "-",
     required |-> FALSE, help |-> "", checks |-> <<>>, cooldown |-> None,
     name_localizations |-> NoLoc, description_localizations |-> NoLoc]

RawBase ==
    [id |-> 0, name |-> "", kind |-> "slash", guild_id |-> 0, dm_permission |-> TRUE,
     nsfw |-> FALSE, options |-> <<>>, description |-> "-", help |-> "", doc |-> "",
     cog_name |-> "", category |-> "", plugin |-> "", checks |-> <<>>, cooldown |-> None,
     default_member_permissions |-> None,
     name_localizations |-> NoLoc, description_localizations |-> NoLoc]

\* "config" / group "set" / sub-commands "timeout", "limit"; not available in DMs
Config ==
    [RawBase EXCEPT !.name = "config", !.dm_permission = FALSE, !.description = "configure",
        !.name_localizations = {<<"de", "konfig">>},
        !.options = <<Group("set",
            <<[Sub("timeout", "set the timeout", <<Arg("seconds", TRUE)>>)
                  EXCEPT !.cooldown = Some(Cooldown(1, 10, BucketUser))],
              Sub("limit", "set the limit", <<>>)>>)>>]

\* a guild command gated by kick_members: sub-command, group with a sub-command, argument
Admin ==
    [RawBase EXCEPT !.name = "admin", !.guild_id = 1, !.nsfw = TRUE, !.cog_name = "Admin",
        !.description = "administrate",
        !.default_member_permissions = Some({"kick_members"}),
        !.options = <<[Sub("a", "first", <<>>) EXCEPT !.checks = <<HasKickPermission>>],
                      Group("g", <<Sub("b", "second", <<>>)>>)>>]

Ping ==
    [RawBase EXCEPT !.name = "ping", !.description = "latency", !.category = "General",
        !.options = <<Arg("count", FALSE)>>,
        !.cooldown = Some(Cooldown(1, 15, BucketDefault)),
        !.name_localizations = {<<"fr", "pinguer">>},
        !.description_localizations = {<<"de", "Latenz">>}]

\* two moderation user commands that differ in name only
Ban ==
    [RawBase EXCEPT !.name = "Ban", !.kind = "user",
        !.default_member_permissions = Some({"kick_members"})]

Kick ==
    [RawBase EXCEPT !.name = "Kick", !.kind = "user",
        !.default_member_permissions = Some({"kick_members"})]

Report ==
    [RawBase EXCEPT !.name = "Report", !.kind = "message", !.nsfw = TRUE,
        !.category = "General", !.help = "report a message",
        !.default_member_permissions = Some({})]

\* a second nsfw message command, like Report but for its name
Flag == [Report EXCEPT !.name = "Flag"]

\* a command of a kind that is none of slash, user, message
Launch == [RawBase EXCEPT !.name = "launch", !.kind = "entry_point"]

Mute ==
    [RawBase EXCEPT !.name = "Mute", !.kind = "user", !.guild_id = 2,
        !.dm_permission = FALSE, !.help = "mute a member",
        !.default_member_permissions = Some({"kick_members"})]

\* the same command registered to another guild (one raw command per guild)
MuteElsewhere == [Mute EXCEPT !.guild_id = 1]

\* What the host can register in one step: a raw command and the qualified
\* names of it for which the host holds no invokable.
HostMenu ==
    { <<Config, {}>>, <<Admin, {}>>, <<Admin, {"admin g b"}>>, <<Admin, {"admin a"}>>,
      <<Ping, {}>>, <<Ping, {"ping"}>>, <<Ban, {}>>, <<Kick, {}>>,
      <<Report, {}>>, <<Flag, {}>>, <<Mute, {}>>,
      <<MuteElsewhere, {}>>, <<Launch, {}>> }

IgnoreSets == { {}, {"ping"} }

Adapters == {"helply", "disnake", "nextcord"}

\* the id the remote API assigns to the n-th registered command
ApiId(n) == 41 + n

(***************************************************************************)
(* Text that the code inspects or rewrites is a sequence of one-character  *)
(* strings, so that str.replace, str.title and `in` are computed.          *)
(***************************************************************************)
LowerCase ==
    <<"a","b","c","d","e","f","g","h","i","j","k","l","m",
      "n","o","p","q","r","s","t","u","v","w","x","y","z">>

UpperCase ==
    <<"A","B","C","D","E","F","G","H","I","J","K","L","M",
      "N","O","P","Q","R","S","T","U","V","W","X","Y","Z">>

IsLower(c) == \E i \in DOMAIN LowerCase : LowerCase[i] = c

IsUpper(c) == \E i \in DOMAIN UpperCase : UpperCase[i] = c

IsCased(c) == IsLower(c) \/ IsUpper(c)

ToUpper(c) == IF IsLower(c) THEN UpperCase[CHOOSE i \in DOMAIN LowerCase : LowerCase[i] = c] ELSE c

ToLower(c) == IF IsUpper(c) THEN LowerCase[CHOOSE i \in DOMAIN UpperCase : UpperCase[i] = c] ELSE c

\* str.title(): a cased character is upper-cased after an uncased one, else lower-cased
Title(s) ==
    [i \in 1..Len(s) |-> IF i = 1 \/ ~IsCased(s[i - 1]) THEN ToUpper(s[i]) ELSE ToLower(s[i])]

StartsAt(s, sub, i) ==
    /\ i + Len(sub) - 1 <= Len(s)
    /\ SubSeq(s, i, i + Len(sub) - 1) = sub

\* `sub in s`
Contains(s, sub) == \E i \in 1..Len(s) : StartsAt(s, sub, i)

RECURSIVE ReplaceFrom(_, _, _, _)
ReplaceFrom(s, old, new, i) ==
    IF i > Len(s) THEN <<>>
    ELSE IF StartsAt(s, old, i) THEN new \o ReplaceFrom(s, old, new, i + Len(old))
    ELSE <<s[i]>> \o ReplaceFrom(s, old, new, i + 1)

\* s.replace(old, new)
Replace(s, old, new) == ReplaceFrom(s, old, new, 1)


(***************************************************************************)
(* Cooldown extraction                                                     *)
(***************************************************************************)
\* Helply._parse_cooldowns
Helply_parse_cooldowns(command) ==
    IF command.cooldown = None THEN None
    ELSE LET cooldown == command.cooldown[1]
         IN Some(Cooldown(cooldown.rate, cooldown.per,
                          Title(Replace(cooldown.type, BucketPrefix, <<>>))))

\* DisnakeCommandHandler._parse_cooldowns, NextcordCommandHandler._parse_cooldowns
_parse_cooldowns(command) ==
    IF command.cooldown = None THEN None
    ELSE LET cooldown == command.cooldown[1]
         IN Some(Cooldown(cooldown.rate, cooldown.per,
                Title(Replace(Replace(cooldown.type, BucketPrefix, <<>>),
                              DefaultWord, GlobalWord))))

(***************************************************************************)
(* Checks extraction.  A predicate is [name, closure]: name is the part of *)
(* __qualname__ before the first ".", closure the contents of its cells.   *)
(* A cell content is tagged: [t |-> "tuple", v |-> <<...>>] (role          *)
(* references), [t |-> "dict", v |-> << <<token, BOOLEAN>>, ... >>]        *)
(* (permission flags) or [t |-> "str", v |-> characters].                  *)
(***************************************************************************)
BotWord == <<"b","o","t">>

RoleWord == <<"r","o","l","e">>

Underscore == <<"_">>

Space == <<" ">>

\* [p.replace("_", " ").title() for p, v in mapping.items() if v]
PermissionLabels(items) ==
    LET kept == SelectSeq(items, LAMBDA kv : kv[2])
    IN [i \in 1..Len(kept) |-> Title(Replace(kept[i][1], Underscore, Space))]

\* `"bot" in name or not check.__closure__`
CheckSkipped(check) == Contains(check.name, BotWord) \/ check.closure = <<>>

\* len(x) raises TypeError on a value without a length
len_raises(content) == content.t \in {"int", "callable", "none"}

\* list.extend(x): the characters of a str, the keys of a dict, the items
\* of a tuple
ExtendArgs(content) ==
    IF content.t = "str" THEN [i \in 1..Len(content.v) |-> StrValue(<<content.v[i]>>)]
    ELSE IF content.t = "dict" THEN [i \in 1..Len(content.v) |-> StrValue(content.v[i][1])]
    ELSE content.v

\* the exception one iteration of the loop of
\* DisnakeCommandHandler._parse_checks / Helply._parse_checks ends with
DisnakeCheckError(check) ==
    IF CheckSkipped(check) THEN None
    ELSE LET content == check.closure[1]
         IN IF len_raises(content) THEN Some("TypeError")
            ELSE IF ~Contains(check.name, RoleWord) /\ content.t # "dict"
            THEN Some("AttributeError")
            ELSE None

\* one iteration of the loop of DisnakeCommandHandler._parse_checks / Helply._parse_checks
DisnakeCheckStep(acc, check) ==
    IF CheckSkipped(check) THEN acc
    ELSE LET content == check.closure[1]
             args == IF Len(content.v) > 1 THEN ExtendArgs(content) ELSE <<content>>
         IN IF Contains(check.name, RoleWord)
            THEN [acc EXCEPT !.roles = @ \o args]
            ELSE [acc EXCEPT !.permissions = @ \o PermissionLabels(content.v)]

\* NextcordCommandHandler._extract_closure_values: the cells in order, and
\* from the first callable on, the cells of that callable
RECURSIVE ExtractCells(_, _)
ExtractCells(closure, i) ==
    IF i > Len(closure) THEN <<>>
    ELSE IF closure[i].t = "callable"
    THEN <<closure[i]>> \o ExtractCells(closure[i].v, 1)
    ELSE <<closure[i]>> \o ExtractCells(closure, i + 1)

_extract_closure_values(func) == ExtractCells(func.closure, 1)

\* the inner loop of NextcordCommandHandler._parse_checks
RECURSIVE NextcordClosureStep(_, _, _, _)
NextcordClosureStep(acc, name, values, i) ==
    IF i > Len(values) THEN acc
    ELSE LET content == values[i]
             next == IF content.t \in {"int", "str"} /\ Contains(name, RoleWord)
                     THEN [acc EXCEPT !.roles = Append(@, content)]
                     ELSE IF content.t = "dict"
                     THEN [acc EXCEPT !.permissions = @ \o PermissionLabels(content.v)]
                     ELSE acc
         IN NextcordClosureStep(next, name, values, i + 1)

\* one iteration of the outer loop of NextcordCommandHandler._parse_checks
NextcordCheckStep(acc, check) ==
    IF CheckSkipped(check) THEN acc
    ELSE NextcordClosureStep(acc, check.name, _extract_closure_values(check), 1)

RECURSIVE ParseChecksFrom(_, _, _, _)
ParseChecksFrom(lib, checks, i, acc) ==
    IF i > Len(checks) THEN acc
    ELSE ParseChecksFrom(lib, checks, i + 1,
            IF lib = "nextcord" THEN NextcordCheckStep(acc, checks[i])
            ELSE DisnakeCheckStep(acc, checks[i]))

\* the exception _parse_checks ends with: that of the first iteration to raise
RECURSIVE ParseChecksError(_, _, _)
ParseChecksError(lib, checks, i) ==
    IF i > Len(checks) \/ lib = "nextcord" THEN None
    ELSE IF DisnakeCheckError(checks[i]) # None THEN DisnakeCheckError(checks[i])
    ELSE ParseChecksError(lib, checks, i + 1)

\* _parse_checks of the three classes (the two disnake ones are the same code)
_parse_checks(lib, command) ==
    ParseChecksFrom(lib, command.checks, 1, CommandChecks(<<>>, <<>>))

(***************************************************************************)
(* Arguments, description, category                                        *)
(***************************************************************************)
Argument(option) ==
    [name |-> option.name, description |-> option.description, required |-> option.required,
     name_localizations |-> option.name_localizations,
     description_localizations |-> option.description_localizations]

IsSubOption(option) == option.type \in {"sub_command", "sub_command_group"}

\* Helply._get_command_args, DisnakeCommandHandler._get_command_args
_get_command_args(command) ==
    LET plain == SelectSeq(command.options, LAMBDA o : ~IsSubOption(o))
    IN [i \in 1..Len(plain) |-> Argument(plain[i])]

\* NextcordCommandHandler._parse_arguments: command.options holds the plain options only
_parse_arguments(command) == _get_command_args(command)

\* X or Y on strings
OrElse(a, b) == IF a # "" THEN a ELSE b

\* _get_command_desc of the three classes
_get_command_desc(lib, command) ==
    IF lib = "nextcord" THEN command.description
    ELSE OrElse(command.help, command.description)

\* description of a user or message command
ContextDesc(lib, command) ==
    IF lib = "nextcord" THEN command.doc
    ELSE IF command.help # "" THEN command.help ELSE "-"

\* _get_command_category of the three classes
_get_command_category(lib, command) ==
    CASE lib = "helply" -> OrElse(OrElse(command.cog_name, command.category), "None")
      [] lib = "disnake" -> OrElse(OrElse(command.category, command.plugin), command.cog_name)
      [] lib = "nextcord" -> ""

(***************************************************************************)
(* The canonical command                                                   *)
(***************************************************************************)
AppCommand(type, id, name, description, args, checks, cooldown, category, flags, locs) ==
    [type |-> type, id |-> id, name |-> name, description |-> description, args |-> args,
     checks |-> checks, cooldown |-> cooldown, category |-> category,
     dm_permission |-> flags.dm_permission, nsfw |-> flags.nsfw,
     guild_id |-> flags.guild_id,
     default_member_permissions |-> flags.default_member_permissions,
     name_localizations |-> locs.name_localizations,
     description_localizations |-> locs.description_localizations,
     localized |-> FALSE]

(***************************************************************************)
(* Host look-ups (disnake): bot.get_slash_command(name) walks at most      *)
(* three segments: command, child, child of a group.                       *)
(***************************************************************************)
RECURSIVE Flatten(_)
Flatten(ss) == IF Len(ss) = 0 THEN <<>> ELSE ss[1] \o Flatten(SubSeq(ss, 2, Len(ss)))

ChildPaths(prefix, node) ==
    LET ch == SelectSeq(node.options, IsSubOption)
    IN [i \in 1..Len(ch) |-> <<prefix \o " " \o ch[i].name, ch[i]>>]

SlashPaths(c) ==
    LET groups == SelectSeq(c.options, LAMBDA o : o.type = "sub_command_group")
    IN <<<<c.name, c>>>>
       \o ChildPaths(c.name, c)
       \o Flatten([i \in 1..Len(groups) |->
                     ChildPaths(c.name \o " " \o groups[i].name, groups[i])])

OfKind(b, kind) == SelectSeq(b.commands, LAMBDA c : c.kind = kind)

get_slash_command(b, name) ==
    LET slashes == OfKind(b, "slash")
        paths == Flatten([i \in 1..Len(slashes) |-> SlashPaths(slashes[i])])
        hits == SelectSeq(paths, LAMBDA pn : pn[1] = name)
    IN IF name \in b.missing \/ Len(hits) = 0 THEN None ELSE Some(hits[1][2])

\* bot.get_user_command(name), bot.get_message_command(name)
get_context_command(b, kind, name) ==
    LET hits == SelectSeq(OfKind(b, kind), LAMBDA c : c.name = name)
    IN IF name \in b.missing \/ Len(hits) = 0 THEN None ELSE Some(hits[1])

(***************************************************************************)
(* The tree walker of the two disnake classes                              *)
(***************************************************************************)
\* the leaf built for `option`, a sub-command of the tree of `original_command`
DisnakeLeaf(lib, original_command, option, name, invokable, checks, category) ==
    AppCommand("slash", original_command.id, name, _get_command_desc(lib, invokable),
        _get_command_args(option), checks,
        IF lib = "helply" THEN Helply_parse_cooldowns(invokable)
        ELSE _parse_cooldowns(invokable),
        category,
        [dm_permission |-> original_command.dm_permission, nsfw |-> original_command.nsfw,
         guild_id |-> 0, default_member_permissions |-> None],
        original_command)

\* The loop of _get_sub_commands from option i on; sub_commands is the list
\* collected so far.  parent_command is None at the top level.
RECURSIVE DisnakeSubCommandsFrom(_, _, _, _, _, _, _, _)
DisnakeSubCommandsFrom(lib, b, command, checks, category, parent_command, i, sub_commands) ==
    IF i > Len(command.options) THEN sub_commands
    ELSE
        LET original_command == IF parent_command = None THEN command ELSE parent_command[1]
            option == command.options[i]
            name == IF parent_command # None
                    THEN original_command.name \o " " \o command.name \o " " \o option.name
                    ELSE original_command.name \o " " \o option.name
        IN  IF option.type = "sub_command_group"
            THEN DisnakeSubCommandsFrom(lib, b, command, checks, category, parent_command, i + 1,
                    sub_commands \o DisnakeSubCommandsFrom(lib, b, option, checks, category,
                                        Some(original_command), 1, <<>>))
            ELSE IF option.type = "sub_command"
            THEN LET invokable == get_slash_command(b, name)
                 IN IF invokable = None THEN <<>>
                    ELSE DisnakeSubCommandsFrom(lib, b, command, checks, category,
                            parent_command, i + 1,
                            Append(sub_commands,
                                DisnakeLeaf(lib, original_command, option, name,
                                            invokable[1], checks, category)))
            ELSE DisnakeSubCommandsFrom(lib, b, command, checks, category, parent_command,
                    i + 1, sub_commands)

\* Helply._get_sub_commands, DisnakeCommandHandler._get_sub_commands
Disnake_get_sub_commands(lib, b, command, checks, category) ==
    DisnakeSubCommandsFrom(lib, b, command, checks, category, None, 1, <<>>)

TopFlags(command, default_member_permissions) ==
    [dm_permission |-> command.dm_permission, nsfw |-> command.nsfw,
     guild_id |-> command.guild_id,
     default_member_permissions |-> default_member_permissions]

\* Helply._handle_slash_command, DisnakeCommandHandler._handle_slash_command
Disnake_handle_slash_command(lib, b, command) ==
    LET found == get_slash_command(b, command.name)
    IN IF found = None THEN <<>>
       ELSE LET invokable == found[1]
                checks == _parse_checks(lib, invokable)
                cooldown == IF lib = "helply" THEN Helply_parse_cooldowns(invokable)
                            ELSE _parse_cooldowns(invokable)
                desc == _get_command_desc(lib, invokable)
                category == _get_command_category(lib, invokable)
                args == _get_command_args(command)
                sub_commands == Disnake_get_sub_commands(lib, b, command, checks, category)
            IN IF Len(sub_commands) > 0 THEN sub_commands
               ELSE << AppCommand("slash", command.id, command.name, desc, args, checks,
                          cooldown, category,
                          TopFlags(command, invokable.default_member_permissions),
                          command) >>

\* _handle_user_command and _handle_message_command of the two disnake classes:
\* the empty sequence stands for the None they return
Disnake_handle_context_command(lib, b, kind, command) ==
    LET found == get_context_command(b, kind, command.name)
    IN IF found = None THEN <<>>
       ELSE LET invokable == found[1]
            IN << AppCommand(kind, command.id, command.name,
                      ContextDesc(lib, invokable), <<>>, _parse_checks(lib, invokable),
                      IF lib = "helply" THEN Helply_parse_cooldowns(invokable)
                      ELSE _parse_cooldowns(invokable),
                      _get_command_category(lib, invokable),
                      TopFlags(command, invokable.default_member_permissions),
                      [name_localizations |-> command.name_localizations,
                       description_localizations |-> NoLoc]) >>

(***************************************************************************)
(* The tree walker and the handlers of NextcordCommandHandler.  The host   *)
(* objects are the invokables themselves: nothing is resolved by name.     *)
(***************************************************************************)
Children(node) == SelectSeq(node.options, IsSubOption)

NextcordLeaf(command_id, command, child, category) ==
    AppCommand("slash", command_id, child.name, _get_command_desc("nextcord", child),
        _parse_arguments(child), _parse_checks("nextcord", child), _parse_cooldowns(child),
        category,
        TopFlags(command, command.default_member_permissions),
        child)

\* NextcordCommandHandler._get_sub_commands
Nextcord_get_sub_commands(command_id, command, category) ==
    LET children == Children(command)
        leaves(child) ==
            IF Len(Children(child)) = 0
            THEN << NextcordLeaf(command_id, command, child, category) >>
            ELSE [j \in 1..Len(Children(child)) |->
                    NextcordLeaf(command_id, command, Children(child)[j], category)]
    IN Flatten([i \in 1..Len(children) |-> leaves(children[i])])

\* NextcordCommandHandler._handle_slash_command
Nextcord_handle_slash_command(id_, command) ==
    LET category == _get_command_category("nextcord", command)
        sub_commands == Nextcord_get_sub_commands(id_, command, category)
    IN IF Len(sub_commands) > 0 THEN sub_commands
       ELSE << AppCommand("slash", id_, command.name, _get_command_desc("nextcord", command),
                  _parse_arguments(command), _parse_checks("nextcord", command),
                  _parse_cooldowns(command), category,
                  TopFlags(command, command.default_member_permissions), command) >>

\* NextcordCommandHandler._handle_message_command, _handle_user_command
Nextcord_handle_context_command(id_, kind, command) ==
    << AppCommand(kind, id_, command.name, ContextDesc("nextcord", command), <<>>,
          _parse_checks("nextcord", command), _parse_cooldowns(command),
          _get_command_category("nextcord", command),
          TopFlags(command, command.default_member_permissions),
          [name_localizations |-> command.name_localizations,
           description_localizations |-> NoLoc]) >>

(***************************************************************************)
(* build(): _walk_app_commands of the three classes                        *)
(***************************************************************************)
\* bot.global_application_commands, then each guild's commands
all_commands(b) ==
    SelectSeq(b.commands, LAMBDA c : c.guild_id = 0)
    \o Flatten([g \in 1..Len(Guilds) |->
                  SelectSeq(b.commands, LAMBDA c : c.guild_id = Guilds[g])])

\* what one iteration of the loop of the disnake classes contributes
DisnakeBuilt(lib, b, ignore, command) ==
    IF ignore # {} /\ command.name \in ignore THEN <<>>
    ELSE IF command.kind = "slash" THEN Disnake_handle_slash_command(lib, b, command)
    ELSE IF command.kind = "message"
    THEN Disnake_handle_context_command(lib, b, "message", command)
    ELSE Disnake_handle_context_command(lib, b, "user", command)

\* DisnakeCommandHandler._walk_app_commands
Disnake_walk_app_commands(b, ignore, registry) ==
    IF Len(registry) > 0 THEN registry
    ELSE LET all == all_commands(b)
         IN registry \o Flatten([i \in 1..Len(all) |-> DisnakeBuilt("disnake", b, ignore, all[i])])

KnownKinds == {"slash", "message", "user"}

\* the commands the loop of NextcordCommandHandler._walk_app_commands handles
\* before it raises, or all of them
BeforeUnsupported(cs) ==
    IF \E i \in 1..Len(cs) : cs[i].kind \notin KnownKinds
    THEN SubSeq(cs, 1, (CHOOSE i \in 1..Len(cs) :
                          /\ cs[i].kind \notin KnownKinds
                          /\ \A j \in 1..(i - 1) : cs[j].kind \in KnownKinds) - 1)
    ELSE cs

\* NextcordCommandHandler._walk_app_commands: the registry it leaves, which
\* holds what was extended before errors.UnsupportedCommandType was raised
Nextcord_walk_app_commands(b, registry) ==
    IF Len(registry) > 0 THEN registry
    ELSE LET built_(command) ==
                 IF command.kind = "slash"
                 THEN Nextcord_handle_slash_command(command.id, command)
                 ELSE Nextcord_handle_context_command(command.id, command.kind, command)
             handled == BeforeUnsupported(b.commands)
         IN registry \o Flatten([i \in 1..Len(handled) |-> built_(handled[i])])

\* whether that call raises errors.UnsupportedCommandType
Nextcord_walk_raises(b, registry) ==
    /\ Len(registry) = 0
    /\ \E i \in 1..Len(b.commands) : b.commands[i].kind \notin KnownKinds

\* self._app_commands[c.id] = c on a dict kept in insertion order
DictSet(registry, c) ==
    IF \E i \in 1..Len(registry) : registry[i].id = c.id
    THEN [i \in 1..Len(registry) |-> IF registry[i].id = c.id THEN c ELSE registry[i]]
    ELSE Append(registry, c)

RECURSIVE DictUpdate(_, _)
DictUpdate(registry, cs) ==
    IF Len(cs) = 0 THEN registry
    ELSE DictUpdate(DictSet(registry, cs[1]), SubSeq(cs, 2, Len(cs)))

\* Helply._walk_app_commands
Helply_walk_app_commands(b, ignore, registry) ==
    LET all == all_commands(b)
    IN DictUpdate(registry,
          Flatten([i \in 1..Len(all) |-> DisnakeBuilt("helply", b, ignore, all[i])]))

(***************************************************************************)
(* Localization                                                            *)
(***************************************************************************)
\* table.get(str(locale), default)
TableGet(table, locale, default) ==
    IF \E p \in table : p[1] = locale
    THEN (CHOOSE p \in table : p[1] = locale)[2]
    ELSE default

\* Argument.get_localized_name
Argument_get_localized_name(a, locale) ==
    IF a.name_localizations = {} THEN a.name
    ELSE TableGet(a.name_localizations, locale, a.name)

\* Argument.get_localized_description
Argument_get_localized_description(a, locale) ==
    IF a.description_localizations = {} THEN a.name
    ELSE TableGet(a.description_localizations, locale, a.description)

\* Argument.localize
Argument_localize(a, locale) ==
    [name |-> Argument_get_localized_name(a, locale),
     description |-> Argument_get_localized_description(a, locale),
     required |-> a.required]

\* AppCommand.get_localized_name
get_localized_name(c, locale) ==
    IF c.name_localizations = {} THEN c.name
    ELSE TableGet(c.name_localizations, locale, c.name)

\* AppCommand.get_localized_description falling back to the name, as
\* Argument.get_localized_description does
get_localized_description_NameFallback(c, locale) ==
    IF c.description_localizations = {} THEN c.name
    ELSE TableGet(c.description_localizations, locale, c.description)

\* AppCommand.get_localized_description
get_localized_description(c, locale) ==
    IF c.description_localizations = {} THEN c.description
    ELSE TableGet(c.description_localizations, locale, c.description)

\* AppCommand.localize that passes no cooldown and no guild id on
localize_FlagsNotCopied(c, locale) ==
    [type |-> c.type, id |-> c.id, _name |-> c.name,
     name |-> get_localized_name(c, locale),
     description |-> get_localized_description(c, locale),
     args |-> IF c.type = "slash"
              THEN [i \in 1..Len(c.args) |-> Argument_localize(c.args[i], locale)]
              ELSE <<>>,
     checks |-> c.checks, cooldown |-> None, category |-> c.category,
     dm_permission |-> c.dm_permission, nsfw |-> c.nsfw, guild_id |-> 0,
     default_member_permissions |-> c.default_member_permissions,
     localized |-> TRUE]

\* AppCommand.localize: a LocalizedSlashCommand / LocalizedUserCommand /
\* LocalizedMessageCommand (only the first has args)
localize(c, locale) ==
    [type |-> c.type, id |-> c.id, _name |-> c.name,
     name |-> get_localized_name(c, locale),
     description |-> get_localized_description(c, locale),
     args |-> IF c.type = "slash"
              THEN [i \in 1..Len(c.args) |-> Argument_localize(c.args[i], locale)]
              ELSE <<>>,
     checks |-> c.checks, cooldown |-> c.cooldown, category |-> c.category,
     dm_permission |-> c.dm_permission, nsfw |-> c.nsfw, guild_id |-> c.guild_id,
     default_member_permissions |-> c.default_member_permissions,
     localized |-> TRUE]

(***************************************************************************)
(* Equality of commands                                                    *)
(***************************************************************************)
\* AppCommand.__eq__(self, other); isinstance(other, self.__class__) holds
\* exactly for commands of the same kind
AppCommand_eq(self, other) ==
    /\ ~other.localized
    /\ other.type = self.type
    /\ \/ self.id = other.id
       \/ /\ self.description = other.description
          /\ self.checks = other.checks
          /\ self.category = other.category
          /\ self.cooldown = other.cooldown
          /\ self.nsfw = other.nsfw
          /\ self.default_member_permissions = other.default_member_permissions

\* LocalizedAppCommand.__eq__(self, other)
LocalizedAppCommand_eq(self, other) ==
    /\ other.localized
    /\ other.type = self.type
    /\ \/ self.id = other.id
       \/ /\ self._name \in {other.name, other._name}
          /\ self.type = other.type
          /\ self.category = other.category
          /\ self.nsfw = other.nsfw
          /\ self.default_member_permissions = other.default_member_permissions
          /\ self.cooldown = other.cooldown

Eq(self, other) ==
    IF self.localized THEN LocalizedAppCommand_eq(self, other)
    ELSE AppCommand_eq(self, other)

\* `command in commands`: an element of the list compares equal to command
In(command, commands) == \E i \in 1..Len(commands) : Eq(commands[i], command)

(***************************************************************************)
(* query: Helply.get_all_commands                                          *)
(***************************************************************************)
\* permissions >= required  (Permissions.is_superset)
IsSuperset(permissions, required) == required \subseteq permissions

\* the loop body without its `not permissions and default_member_permissions`
\* branch
PassesFilters_NoCeilingBranchDropped(command, q) ==
    /\ ~(q.category # "" /\ command.category # q.category)
    /\ ~(q.guild_id # 0 /\ command.guild_id # 0 /\ command.guild_id # q.guild_id)
    /\ ~(q.dm_only /\ ~command.dm_permission)
    /\ ~(/\ q.permissions # None
         /\ command.default_member_permissions # None
         /\ ~IsSuperset(q.permissions[1], command.default_member_permissions[1]))
    /\ ~(~q.include_nsfw /\ command.nsfw)

\* the loop body without its `dm_only and not command.dm_permission` branch
PassesFilters_DmBranchDropped(command, q) ==
    /\ ~(q.category # "" /\ command.category # q.category)
    /\ ~(q.guild_id # 0 /\ command.guild_id # 0 /\ command.guild_id # q.guild_id)
    /\ ~(q.permissions = None /\ command.default_member_permissions # None)
    /\ ~(/\ q.permissions # None
         /\ command.default_member_permissions # None
         /\ ~IsSuperset(q.permissions[1], command.default_member_permissions[1]))
    /\ ~(~q.include_nsfw /\ command.nsfw)

\* the filters of the loop body: TRUE when no `continue` is taken.  A
\* Permissions object is truthy whatever its value; only None is falsy.
PassesFilters(command, q) ==
    /\ ~(q.category # "" /\ command.category # q.category)
    /\ ~(q.guild_id # 0 /\ command.guild_id # 0 /\ command.guild_id # q.guild_id)
    /\ ~(q.dm_only /\ ~command.dm_permission)
    /\ ~(q.permissions = None /\ command.default_member_permissions # None)
    /\ ~(/\ q.permissions # None
         /\ command.default_member_permissions # None
         /\ ~IsSuperset(q.permissions[1], command.default_member_permissions[1]))
    /\ ~(~q.include_nsfw /\ command.nsfw)

RECURSIVE CollectFrom(_, _, _, _)
CollectFrom(registry, q, i, commands) ==
    IF i > Len(registry) THEN commands
    ELSE IF ~PassesFilters(registry[i], q) THEN CollectFrom(registry, q, i + 1, commands)
    ELSE LET command == IF q.locale # None THEN localize(registry[i], q.locale[1])
                        ELSE registry[i]
         IN CollectFrom(registry, q, i + 1,
                IF ~In(command, commands) THEN Append(commands, command) ELSE commands)

\* the loop of get_all_commands over self._app_commands.values()
get_all_commands(registry, q) == CollectFrom(registry, q, 1, <<>>)

\* the loop of Helply.get_command_named: the first command whose (localized)
\* name is `name` and whose type is cmd_type when one is given
RECURSIVE NamedFrom(_, _, _, _, _)
NamedFrom(registry, name, locale, cmd_type, i) ==
    IF i > Len(registry) THEN None
    ELSE LET command == IF locale # None THEN localize(registry[i], locale[1])
                        ELSE registry[i]
         IN IF command.name = name /\ (cmd_type = None \/ command.type = cmd_type[1])
            THEN Some(command)
            ELSE NamedFrom(registry, name, locale, cmd_type, i + 1)

get_command_named(registry, name, locale, cmd_type) ==
    NamedFrom(registry, name, locale, cmd_type, 1)

LookupNames == {"ping", "pinguer", "Ban"}

\* get_categories without the `not in categories` test
get_categories_EveryCommand(registry, f) ==
    LET found == get_all_commands(registry, f)
    IN [i \in 1..Len(found) |-> found[i].category]

RECURSIVE CategoriesFrom(_, _, _)
CategoriesFrom(found, i, cats) ==
    IF i > Len(found) THEN cats
    ELSE CategoriesFrom(found, i + 1,
            IF \A k \in 1..Len(cats) : cats[k] # found[i].category
            THEN Append(cats, found[i].category) ELSE cats)

\* Helply.get_categories: the categories of what get_all_commands returns
\* for the same filters, each once
get_categories(registry, f) == CategoriesFrom(get_all_commands(registry, f), 1, <<>>)

Queries ==
    [guild_id : {0, 1}, category : {"", "General"},
     permissions : {None} \cup {Some(p) : p \in SUBSET Flags},
     include_nsfw : BOOLEAN, dm_only : BOOLEAN,
     locale : {None} \cup {Some(l) : l \in Locales}]

\* the arguments of get_categories: no category and no locale are passed on
CategoryFilters == {q \in Queries : q.category = "" /\ q.locale = None}

(***************************************************************************)
(* The state machine                                                       *)
(***************************************************************************)
\* no call of roles_from_checks is under way
RolesIdle ==
    /\ role_checks = <<>>
    /\ guild = [roles |-> <<>>]
    /\ resolved = None

\* no call of _parse_checks is under way
ChecksIdle ==
    /\ command_checks = <<>>
    /\ parsed = None
    /\ parse_raised = None

\* no call of commands_overview_embeds is under way
EmbedsIdle ==
    /\ help_commands = <<>>
    /\ max_field_chars = 0
    /\ max_fields = 0
    /\ overview = None

\* no Paginator has been constructed
PaginatorIdle == paginator = None

UtilIdle == RolesIdle /\ ChecksIdle /\ EmbedsIdle /\ PaginatorIdle

Init ==
    /\ bot = [commands |-> <<>>, missing |-> {}]
    /\ adapter \in Adapters
    /\ commands_to_ignore \in IgnoreSets
    /\ app_commands = <<>>
    /\ built = FALSE
    /\ query = None
    /\ result = <<>>
    /\ raised = None
    /\ named = None
    /\ categories = None
    /\ UtilIdle

\* The host registers one more command (with the remote API and, unless
\* named in e[2], with its invokables).  The remote API keeps names unique
\* per kind and scope.
RegisterCommand(e) ==
    /\ query = None
    /\ named = None
    /\ Len(bot.commands) < MaxCmds
    /\ \A i \in 1..Len(bot.commands) :
          ~(/\ bot.commands[i].name = e[1].name
            /\ bot.commands[i].kind = e[1].kind
            /\ bot.commands[i].guild_id = e[1].guild_id)
    /\ bot' = [commands |-> Append(bot.commands,
                              [e[1] EXCEPT !.id = ApiId(Len(bot.commands) + 1)]),
               missing |-> bot.missing \cup e[2]]
    /\ UNCHANGED <<adapter, commands_to_ignore, app_commands, built, query, result, raised,
                   named, categories, utilVars>>

\* build() of a handler: CommandHandler._walk_app_commands()
Build ==
    /\ adapter \in {"disnake", "nextcord"}
    /\ app_commands' = IF adapter = "disnake"
                       THEN Disnake_walk_app_commands(bot, commands_to_ignore, app_commands)
                       ELSE Nextcord_walk_app_commands(bot, app_commands)
    /\ built' = TRUE
    /\ raised' = IF adapter = "nextcord" /\ Nextcord_walk_raises(bot, app_commands)
                 THEN Some("UnsupportedCommandType") ELSE None
    /\ UNCHANGED <<bot, adapter, commands_to_ignore, query, result, named, categories, utilVars>>

\* Helply.get_all_commands(guild_id, category=, permissions=, include_nsfw=,
\* dm_only=, locale=): builds the registry when it is empty, then filters it
Query(q) ==
    /\ adapter = "helply"
    /\ query = None
    /\ named = None
    /\ app_commands' = IF Len(app_commands) = 0
                       THEN Helply_walk_app_commands(bot, commands_to_ignore, app_commands)
                       ELSE app_commands
    /\ built' = (built \/ Len(app_commands) = 0)
    /\ query' = Some(q)
    /\ result' = get_all_commands(app_commands', q)
    /\ UNCHANGED <<bot, adapter, commands_to_ignore, raised, named, categories, utilVars>>

\* Helply.get_command_named(name, locale, cmd_type): reads the registry as
\* it is
GetCommandNamed(name, locale, cmd_type) ==
    /\ adapter = "helply"
    /\ query = None
    /\ named = None
    /\ named' = Some([name |-> name, locale |-> locale, cmd_type |-> cmd_type,
                      found |-> get_command_named(app_commands, name, locale, cmd_type)])
    /\ UNCHANGED <<bot, adapter, commands_to_ignore, app_commands, built, query, result,
                   raised, categories, utilVars>>

\* Helply.get_categories(guild_id, permissions=, include_nsfw=, dm_only=):
\* calls get_all_commands with these filters (which builds the registry when
\* it is empty) and collects the categories of what it returns
GetCategories(f) ==
    /\ adapter = "helply"
    /\ query = None
    /\ named = None
    /\ app_commands' = IF Len(app_commands) = 0
                       THEN Helply_walk_app_commands(bot, commands_to_ignore, app_commands)
                       ELSE app_commands
    /\ built' = (built \/ Len(app_commands) = 0)
    /\ query' = Some(f)
    /\ result' = get_all_commands(app_commands', f)
    /\ categories' = Some(get_categories(app_commands', f))
    /\ UNCHANGED <<bot, adapter, commands_to_ignore, raised, named, utilVars>>

\* get_all_commands, get_command_named or get_categories returns to its
\* caller: the event loop is single-threaded, so nothing else runs between
\* the call and its return
Return ==
    /\ query # None \/ named # None
    /\ query' = None
    /\ result' = <<>>
    /\ named' = None
    /\ categories' = None
    /\ UNCHANGED <<bot, adapter, commands_to_ignore, app_commands, built, raised, utilVars>>

Next ==
    \/ \E e \in HostMenu : RegisterCommand(e)
    \/ Build
    \/ \E q \in Queries : Query(q)
    \/ \E f \in CategoryFilters : GetCategories(f)
    \/ \E name \in LookupNames, locale \in {None} \cup {Some(l) : l \in Locales},
          cmd_type \in {None, Some("user")} :
            GetCommandNamed(name, locale, cmd_type)
    \/ Return

Spec == Init /\ [][Next]_vars

\* the instance the utility functions are called beside: a Helply with
\* nothing registered and nothing built
HostIdle ==
    /\ bot = [commands |-> <<>>, missing |-> {}]
    /\ adapter = "helply"
    /\ commands_to_ignore = {}
    /\ app_commands = <<>>
    /\ built = FALSE
    /\ query = None
    /\ result = <<>>
    /\ raised = None
    /\ named = None
    /\ categories = None

(***************************************************************************)
(* Vocabulary of the properties                                            *)
(***************************************************************************)
\* the qualified names of the terminal sub-commands under `node`, in
\* declaration order
RECURSIVE TerminalPaths(_, _)
TerminalPaths(prefix, node) ==
    Flatten([i \in 1..Len(node.options) |->
        LET o == node.options[i]
        IN IF o.type = "sub_command" THEN << prefix \o " " \o o.name >>
           ELSE IF o.type = "sub_command_group" THEN TerminalPaths(prefix \o " " \o o.name, o)
           ELSE <<>>])

\* what the tree walker of this instance's class returns for top-level command c
Walker(c) ==
    IF adapter = "nextcord"
    THEN Nextcord_get_sub_commands(c.id, c, _get_command_category("nextcord", c))
    ELSE Disnake_get_sub_commands(adapter, bot, c, _parse_checks(adapter, c),
                                  _get_command_category(adapter, c))

SlashIndexes == {i \in 1..Len(bot.commands) : bot.commands[i].kind = "slash"}

\* every terminal sub-command of c, and c itself, has an invokable
AllResolvable(c) ==
    /\ c.name \notin bot.missing
    /\ \A j \in 1..Len(TerminalPaths(c.name, c)) : TerminalPaths(c.name, c)[j] \notin bot.missing

SomeUnresolvable(c) ==
    /\ c.name \notin bot.missing
    /\ \E j \in 1..Len(TerminalPaths(c.name, c)) : TerminalPaths(c.name, c)[j] \in bot.missing

\* the registry is what a build of the present host from scratch leaves
Fresh ==
    /\ built
    /\ app_commands =
         CASE adapter = "helply" -> Helply_walk_app_commands(bot, commands_to_ignore, <<>>)
           [] adapter = "disnake" -> Disnake_walk_app_commands(bot, commands_to_ignore, <<>>)
           [] adapter = "nextcord" -> Nextcord_walk_app_commands(bot, <<>>)

\* registry entry c is in the returned list
Returned(c) == \E j \in 1..Len(result) : result[j].id = c.id

\* the non-localized name of a returned command
NameOf(r) == IF r.localized THEN r._name ELSE r.name

\* the guild, dm, nsfw and category filters of a query
OtherThanPermissions(c, q) ==
    /\ (q.category = "" \/ c.category = q.category)
    /\ (q.guild_id = 0 \/ c.guild_id = 0 \/ c.guild_id = q.guild_id)
    /\ (~q.dm_only \/ c.dm_permission)
    /\ (q.include_nsfw \/ ~c.nsfw)

HasSubOptions(c) == \E k \in 1..Len(c.options) : IsSubOption(c.options[k])

Unfiltered ==
    [guild_id |-> 0, category |-> "", permissions |-> None,
     include_nsfw |-> TRUE, dm_only |-> FALSE, locale |-> None]

(***************************************************************************)
(* Properties                                                              *)
(***************************************************************************)
\* C1: for a top-level slash command all of whose sub-commands have an
\* invokable, the tree walker returns exactly one leaf per terminal
\* sub-command, in declaration order, each with the top-level command's id
\* and the space-joined full path as its name, whatever the nesting depth
\* and whichever handler class is used.
C1_WalkerLeafPerTerminal ==
    \A i \in SlashIndexes :
        LET c == bot.commands[i]
            paths == TerminalPaths(c.name, c)
            leaves == Walker(c)
        IN (AllResolvable(c) /\ Len(paths) > 0) =>
              /\ Len(leaves) = Len(paths)
              /\ \A j \in 1..Len(paths) :
                    leaves[j].id = c.id /\ leaves[j].name = paths[j]

\* C2: when some sub-command in a top-level command's tree has no invokable,
\* the tree walker returns the empty sequence for that top-level command,
\* never a part of its leaves.
C2_WalkerAllOrNothing ==
    \A i \in SlashIndexes :
        LET c == bot.commands[i]
        IN (adapter # "nextcord" /\ SomeUnresolvable(c)) => Walker(c) = <<>>

\* C3: in a registry just built, a top-level command with an unresolvable
\* sub-command has no entry at all, and a top-level command is entered under
\* its own name only when it has no sub-command options.
C3_UnresolvableTopLevelOmitted ==
    Fresh =>
        \A i \in SlashIndexes :
            LET c == bot.commands[i]
                entries == SelectSeq(app_commands, LAMBDA e : e.id = c.id)
            IN /\ (adapter # "nextcord" /\ SomeUnresolvable(c)) => entries = <<>>
               /\ (\E j \in 1..Len(entries) : entries[j].name = c.name)
                     => ~HasSubOptions(c)

C5_CeilingIffSubset ==
    (query # None /\ query[1].permissions # None) =>
        \A i \in 1..Len(app_commands) :
            LET c == app_commands[i]
            IN (c.default_member_permissions # None /\ OtherThanPermissions(c, query[1]))
                  => (Returned(c) <=>
                        c.default_member_permissions[1] \subseteq query[1].permissions[1])

\* C6: under a guild id G, every returned command is global or scoped to G,
\* and every registry command that is global or scoped to G and passes the
\* other filters is returned.
C6_GuildScopeExact ==
    (query # None /\ query[1].guild_id # 0) =>
        /\ \A j \in 1..Len(result) : result[j].guild_id \in {0, query[1].guild_id}
        /\ \A i \in 1..Len(app_commands) :
              LET c == app_commands[i]
              IN (c.guild_id \in {0, query[1].guild_id} /\ PassesFilters(c, query[1]))
                    => Returned(c)

\* C7: every leaf the walker builds for a sub-command carries the top-level
\* command's id, dm permission, nsfw flag, guild scope and default member
\* permissions.
C7_LeafInheritsTopLevel ==
    \A i \in SlashIndexes :
        LET c == bot.commands[i]
            leaves == Walker(c)
        IN \A j \in 1..Len(leaves) :
              /\ leaves[j].id = c.id
              /\ leaves[j].dm_permission = c.dm_permission
              /\ leaves[j].nsfw = c.nsfw
              /\ leaves[j].guild_id = c.guild_id
              /\ leaves[j].default_member_permissions = c.default_member_permissions

\* C8: when a top-level command has a group of two or more sub-commands, all
\* with invokables, an unfiltered query over the freshly built registry
\* returns one entry per sub-command of the group.
C8_OneEntryPerSubCommand ==
    (query # None /\ query[1] = Unfiltered /\ Fresh) =>
        \A i \in SlashIndexes :
            LET c == bot.commands[i]
            IN (AllResolvable(c) /\ c.name \notin commands_to_ignore) =>
                  \A k \in 1..Len(c.options) :
                      LET g == c.options[k]
                          subs == SelectSeq(g.options, LAMBDA o : o.type = "sub_command")
                      IN (g.type = "sub_command_group" /\ Len(subs) >= 2) =>
                            \A s \in 1..Len(subs) :
                                \E j \in 1..Len(result) :
                                    /\ result[j].id = c.id
                                    /\ result[j].name = c.name \o " " \o g.name \o " " \o subs[s].name

\* C9: a query leaves out a command that passed every filter only when a
\* command collected before it has the same name, kind, category, nsfw flag
\* and default member permissions.
C9_DedupNeedsSameName ==
    query # None =>
        \A i \in 1..Len(app_commands) :
            LET c == app_commands[i]
            IN (PassesFilters(c, query[1]) /\ ~Returned(c)) =>
                  \E j \in 1..Len(result) :
                      /\ NameOf(result[j]) = c.name
                      /\ result[j].type = c.type
                      /\ result[j].category = c.category
                      /\ result[j].nsfw = c.nsfw
                      /\ result[j].default_member_permissions = c.default_member_permissions

\* C10: once a build has run, no later build or query changes the registry,
\* also when that first build left it empty and the host has other commands
\* by the later call.
C10_BuildIdempotent == [][built => app_commands' = app_commands]_vars

\* C11: a query with dm_only set returns only commands whose dm permission
\* is true, whatever the guild id and the other filters.
C11_DmOnlyReturnsDmAvailable ==
    (query # None /\ query[1].dm_only) =>
        \A j \in 1..Len(result) : result[j].dm_permission

\* a dm_only query under a guild id has returned a command and has left out
\* a registry command that is closed to direct messages and passes every
\* other filter
C11_Witness ==
    /\ query # None
    /\ query[1].dm_only
    /\ query[1].guild_id # 0
    /\ Len(result) > 0
    /\ \E i \in 1..Len(app_commands) :
          /\ ~app_commands[i].dm_permission
          /\ PassesFilters(app_commands[i], [query[1] EXCEPT !.dm_only = FALSE])
          /\ ~Returned(app_commands[i])

\* C12: a registry command flagged nsfw that passes every other filter is
\* absent from a query that excludes nsfw commands and present in one that
\* includes them; whether a command not flagged nsfw is returned does not
\* depend on the include_nsfw argument.
C12_NsfwFilter ==
    query # None =>
        \A i \in 1..Len(app_commands) :
            LET c == app_commands[i]
                q == query[1]
                other == get_all_commands(app_commands,
                            [q EXCEPT !.include_nsfw = ~q.include_nsfw])
            IN /\ (c.nsfw /\ PassesFilters(c, [q EXCEPT !.include_nsfw = TRUE]))
                     => (Returned(c) <=> q.include_nsfw)
               /\ ~c.nsfw
                     => (Returned(c) <=> \E j \in 1..Len(other) : other[j].id = c.id)

\* C13: get_all_commands called with every argument at its default returns
\* every command held in the registry.
C13_DefaultQueryReturnsAll ==
    (query # None /\ query[1] = Unfiltered) =>
        \A i \in 1..Len(app_commands) : Returned(app_commands[i])

\* the seven scope labels
ScopeLabels ==
    { <<"G","l","o","b","a","l">>, <<"U","s","e","r">>, <<"G","u","i","l","d">>,
      <<"C","h","a","n","n","e","l">>, <<"M","e","m","b","e","r">>,
      <<"C","a","t","e","g","o","r","y">>, <<"R","o","l","e">> }

\* the cooldown extractor of this instance's class
ExtractCooldown(node) ==
    IF adapter = "helply" THEN Helply_parse_cooldowns(node) ELSE _parse_cooldowns(node)

\* C14: every cooldown extractor gives the label Global for the default
\* scope and User for the per-user scope, gives one of the seven scope labels
\* always, and turns (rate 1, per 15, default scope) into Cooldown(1, 15,
\* Global).
C14_CooldownLabelsCanonical ==
    \A i \in 1..Len(bot.commands) :
        \A k \in 1..Len(SlashPaths(bot.commands[i])) :
            LET node == SlashPaths(bot.commands[i])[k][2]
                raw == node.cooldown
                out == ExtractCooldown(node)
            IN raw # None =>
                  /\ out # None
                  /\ out[1].type \in ScopeLabels
                  /\ raw[1].type = BucketDefault => out[1].type = <<"G","l","o","b","a","l">>
                  /\ raw[1].type = BucketUser => out[1].type = <<"U","s","e","r">>
                  /\ raw[1] = Cooldown(1, 15, BucketDefault)
                        => out[1] = Cooldown(1, 15, <<"G","l","o","b","a","l">>)

\* what a build of the present host from scratch leaves under ignore-set S
BuildWith(S) ==
    CASE adapter = "helply" -> Helply_walk_app_commands(bot, S, <<>>)
      [] adapter = "disnake" -> Disnake_walk_app_commands(bot, S, <<>>)
      [] adapter = "nextcord" -> Nextcord_walk_app_commands(bot, <<>>)

\* ids of the raw top-level commands whose name is in S
IgnoredIds(S) ==
    {bot.commands[i].id : i \in {k \in 1..Len(bot.commands) : bot.commands[k].name \in S}}

\* C15: a registry just built under ignore-set S holds no entry derived from
\* a raw top-level command named in S, and holds for every other command
\* exactly what a build without ignore-set holds for it.
C15_IgnoreSetRespected ==
    Fresh =>
        /\ \A i \in 1..Len(app_commands) :
              app_commands[i].id \notin IgnoredIds(commands_to_ignore)
        /\ app_commands =
              SelectSeq(BuildWith({}), LAMBDA e : e.id \notin IgnoredIds(commands_to_ignore))

\* a step in which _walk_app_commands walks the host: the registry is empty
\* and a build, or a query that builds, runs
WalkStep == bot' = bot /\ app_commands = <<>> /\ query = None

\* C16: when a build meets a raw command whose kind is none of slash, user
\* and message, it ends with UnsupportedCommandType and enters nothing for
\* that command.
C16_UnknownKindRaises ==
    [][(WalkStep /\ \E i \in 1..Len(bot.commands) :
                       /\ bot.commands[i].kind \notin KnownKinds
                       /\ bot.commands[i].name \notin commands_to_ignore)
          => /\ raised' = Some("UnsupportedCommandType")
             /\ \A i \in 1..Len(bot.commands) : \A j \in 1..Len(app_commands') :
                   bot.commands[i].kind \notin KnownKinds
                      => app_commands'[j].id # bot.commands[i].id]_vars

\* the terminal sub-commands under `node`, in declaration order
RECURSIVE TerminalNodes(_)
TerminalNodes(node) ==
    Flatten([i \in 1..Len(node.options) |->
        LET o == node.options[i]
        IN IF o.type = "sub_command" THEN <<o>>
           ELSE IF o.type = "sub_command_group" THEN TerminalNodes(o)
           ELSE <<>>])

\* C17: every leaf built for a sub-command carries the checks extracted from
\* that sub-command's own invokable.
C17_LeafCarriesOwnChecks ==
    \A i \in SlashIndexes :
        LET c == bot.commands[i]
            nodes == TerminalNodes(c)
            leaves == Walker(c)
        IN (AllResolvable(c) /\ Len(leaves) = Len(nodes)) =>
              \A j \in 1..Len(nodes) : leaves[j].checks = _parse_checks(adapter, nodes[j])

\* C18: in a registry just built every command has a non-empty qualified
\* name and no two entries have the same qualified name.
C18_QualifiedNamesUnique ==
    Fresh =>
        /\ \A i \in 1..Len(app_commands) : app_commands[i].name # ""
        /\ \A i \in 1..Len(app_commands) : \A j \in 1..Len(app_commands) :
              app_commands[i].name = app_commands[j].name => i = j

\* C19: get_command_named called on a registry that has never been built
\* returns the command it returns once a query has built the registry from
\* the same host (so the call has to trigger the build).
C19_NamedLookupBuilds ==
    [][(named = None /\ named' # None /\ ~built) =>
          named'[1].found =
              get_command_named(Helply_walk_app_commands(bot, commands_to_ignore, <<>>),
                                named'[1].name, named'[1].locale, named'[1].cmd_type)]_vars

\* the table has no entry for the locale (an absent or empty table included)
NoEntry(table, locale) == \A p \in table : p[1] # locale

\* C20: the localized form of a command keeps the command's description when
\* its description-localization table is absent, empty or without an entry
\* for the locale, and keeps the command's name under the same condition on
\* its name-localization table.
C20_LocalizeFallsBack ==
    (query # None /\ query[1].locale # None) =>
        \A j \in 1..Len(result) : \A i \in 1..Len(app_commands) :
            LET c == app_commands[i]
                r == result[j]
            IN r.id = c.id =>
                  /\ NoEntry(c.description_localizations, query[1].locale[1])
                        => r.description = c.description
                  /\ NoEntry(c.name_localizations, query[1].locale[1])
                        => r.name = c.name

\* a localized query has returned a command whose description table has
\* entries but none for the locale, with its description kept, and a command
\* whose name table has entries but none for the locale, with its name kept,
\* and a command without description table
C20_Witness ==
    /\ query # None
    /\ query[1].locale # None
    /\ \E j \in 1..Len(result) : \E i \in 1..Len(app_commands) :
          /\ result[j].id = app_commands[i].id
          /\ app_commands[i].description_localizations # {}
          /\ NoEntry(app_commands[i].description_localizations, query[1].locale[1])
          /\ result[j].description = app_commands[i].description
    /\ \E j \in 1..Len(result) : \E i \in 1..Len(app_commands) :
          /\ result[j].id = app_commands[i].id
          /\ app_commands[i].name_localizations # {}
          /\ app_commands[i].description_localizations = {}
          /\ NoEntry(app_commands[i].name_localizations, query[1].locale[1])
          /\ result[j].name = app_commands[i].name
          /\ result[j].description = app_commands[i].description

\* C21: every argument of a localized slash command keeps the argument's
\* description when its description-localization table is absent, empty or
\* without an entry for the locale, and keeps its name under the same
\* condition on its name-localization table.
C21_ArgumentLocalizeFallsBack ==
    (query # None /\ query[1].locale # None) =>
        \A j \in 1..Len(result) : \A i \in 1..Len(app_commands) :
            LET c == app_commands[i]
                r == result[j]
            IN (r.id = c.id /\ c.type = "slash") =>
                  \A k \in 1..Len(c.args) :
                      /\ NoEntry(c.args[k].description_localizations, query[1].locale[1])
                            => r.args[k].description = c.args[k].description
                      /\ NoEntry(c.args[k].name_localizations, query[1].locale[1])
                            => r.args[k].name = c.args[k].name

\* C22: localizing a command yields a new value and leaves the registry's
\* command as it was; the result has the command's id, kind, checks,
\* cooldown, category, dm permission, nsfw flag, guild scope and default
\* member permissions, and for a slash command as many arguments, in the
\* same order, with the same required flags.
C22_LocalizeCopiesIdentity ==
    (query # None /\ query[1].locale # None) =>
        \A j \in 1..Len(result) : \A i \in 1..Len(app_commands) :
            LET c == app_commands[i]
                r == result[j]
            IN r.id = c.id =>
                  /\ r.localized /\ ~c.localized /\ c.name = r._name
                  /\ r.type = c.type
                  /\ r.checks = c.checks
                  /\ r.cooldown = c.cooldown
                  /\ r.category = c.category
                  /\ r.dm_permission = c.dm_permission
                  /\ r.nsfw = c.nsfw
                  /\ r.guild_id = c.guild_id
                  /\ r.default_member_permissions = c.default_member_permissions
                  /\ c.type = "slash" =>
                        /\ Len(r.args) = Len(c.args)
                        /\ \A k \in 1..Len(c.args) : r.args[k].required = c.args[k].required

\* a localized query has returned a slash command with a cooldown and an
\* argument under a name that localization changed
C22_Witness ==
    /\ query # None
    /\ query[1].locale # None
    /\ \E j \in 1..Len(result) :
          /\ result[j].type = "slash"
          /\ result[j].name # result[j]._name
          /\ result[j].cooldown # None
          /\ Len(result[j].args) > 0

(***************************************************************************)
(* roles_from_checks                                                       *)
(***************************************************************************)
MaxRoleChecks == 2

DigitChars == <<"0","1","2","3","4","5","6","7","8","9">>

\* str.isdigit() on ASCII text
isdigit(chars) ==
    /\ Len(chars) > 0
    /\ \A i \in 1..Len(chars) : \E d \in 1..Len(DigitChars) : DigitChars[d] = chars[i]

\* int(text) of decimal digits
RECURSIVE int(_)
int(chars) ==
    IF chars = <<>> THEN 0
    ELSE 10 * int(SubSeq(chars, 1, Len(chars) - 1))
         + (CHOOSE d \in 1..Len(DigitChars) : DigitChars[d] = chars[Len(chars)]) - 1

\* Guild.get_role(role_id)
get_role(g, role_id) ==
    LET hits == SelectSeq(g.roles, LAMBDA r : r.id = role_id)
    IN IF hits = <<>> THEN None ELSE Some(hits[1])

\* utils.get(guild.roles, name=value): the first role of that name
get(roles, value) ==
    LET hits == SelectSeq(roles, LAMBDA r : r.name = value)
    IN IF hits = <<>> THEN None ELSE Some(hits[1])

RECURSIVE RolesFrom(_, _, _, _)
RolesFrom(entries, g, i, roles) ==
    IF i > Len(entries) THEN roles
    ELSE LET name_or_id == entries[i]
             role == IF name_or_id.t = "int" THEN get_role(g, name_or_id.v)
                     ELSE IF isdigit(name_or_id.v) THEN get_role(g, int(name_or_id.v))
                     ELSE get(g.roles, name_or_id.v)
         IN RolesFrom(entries, g, i + 1, IF role # None THEN Append(roles, role[1]) ELSE roles)

\* roles_from_checks(checks, guild), Helply.roles_from_checks(checks, guild)
roles_from_checks(entries, g) == RolesFrom(entries, g, 1, <<>>)

\* the roles guilds are made of: ids are unique, and so are names
RolePool ==
    {[id |-> 7, name |-> <<"m","o","d">>],
     [id |-> 8, name |-> <<"7">>],
     [id |-> 12, name |-> <<"h","e","l","p","e","r">>]}

GuildsOfRoles ==
    {[roles |-> s] : s \in {q \in UNION {[1..n -> RolePool] : n \in 0..Cardinality(RolePool)} :
                              \A i, j \in 1..Len(q) : i # j => q[i] # q[j]}}

\* what a checks.roles list holds: ids and names
RoleCheckEntries ==
    {IntValue(7), IntValue(3), StrValue(<<"m","o","d">>), StrValue(<<"7">>),
     StrValue(<<"1","2">>)}

RoleCheckLists == UNION {[1..n -> RoleCheckEntries] : n \in 0..MaxRoleChecks}

InitRoles ==
    /\ HostIdle
    /\ ChecksIdle
    /\ EmbedsIdle
    /\ PaginatorIdle
    /\ role_checks \in RoleCheckLists
    /\ guild \in GuildsOfRoles
    /\ resolved = None

\* a caller passes a command's checks and a guild to roles_from_checks
RolesFromChecks ==
    /\ resolved = None
    /\ resolved' = Some(roles_from_checks(role_checks, guild))
    /\ UNCHANGED <<hostVars, role_checks, guild, checksVars, embedsVars, paginator>>

SpecRoles == InitRoles /\ [][RolesFromChecks]_vars

\* the role an entry of checks.roles stands for: the one with that id for an
\* integer, the one of exactly that name for a string
StandsFor(entry, g) ==
    SelectSeq(g.roles, LAMBDA r : IF entry.t = "int" THEN r.id = entry.v ELSE r.name = entry.v)

\* C23: roles_from_checks returns, in the order of checks.roles, the guild
\* role with that id for every integer entry and the guild role of exactly
\* that name for every string entry (a name of digits included), and drops
\* the entries that match no role.
C23_RolesResolvedByIdOrName ==
    resolved # None =>
        resolved[1] = Flatten([i \in 1..Len(role_checks) |-> StandsFor(role_checks[i], guild)])

(***************************************************************************)
(* _parse_checks on the predicates a command can carry                     *)
(***************************************************************************)
MaxChecks == 2

ModName == <<"m","o","d">>

KickMembers == <<"k","i","c","k","_","m","e","m","b","e","r","s">>

TupleValue(items) == [t |-> "tuple", v |-> items]

DictValue(items) == [t |-> "dict", v |-> items]

\* a callable and the cells of its own closure
CallableValue(closure) == [t |-> "callable", v |-> closure]

\* a value that is none of the above
NoneValue == [t |-> "none", v |-> <<>>]

\* a check predicate: the first segment of its __qualname__ and the
\* contents of its closure cells
Predicate(name, closure) == [name |-> name, closure |-> closure]

HasRoleName == <<"h","a","s","_","r","o","l","e">>

HasAnyRoleName == <<"h","a","s","_","a","n","y","_","r","o","l","e">>

HasPermissionsName ==
    <<"h","a","s","_","p","e","r","m","i","s","s","i","o","n","s">>

CustomName == <<"c","u","s","t","o","m">>

\* has_role(5), has_role("mod"), has_any_role(5, "mod"), has_any_role(5),
\* has_permissions(kick_members=True, ban_members=False) and its bot_ twin,
\* is_owner() (a predicate that captures nothing), a custom check whose
\* predicate captures another callable, and one that captures some other value
PredicatePool ==
    {Predicate(HasRoleName, <<IntValue(5)>>),
     Predicate(HasRoleName, <<StrValue(ModName)>>),
     Predicate(HasAnyRoleName, <<TupleValue(<<IntValue(5), StrValue(ModName)>>)>>),
     Predicate(HasAnyRoleName, <<TupleValue(<<IntValue(5)>>)>>),
     Predicate(HasPermissionsName,
               <<DictValue(<< <<KickMembers, TRUE>>,
                              <<<<"b","a","n","_","m","e","m","b","e","r","s">>, FALSE>> >>)>>),
     Predicate(BotWord \o Underscore \o HasPermissionsName,
               <<DictValue(<< <<KickMembers, TRUE>> >>)>>),
     Predicate(<<"i","s","_","o","w","n","e","r">>, <<>>),
     Predicate(CustomName, <<CallableValue(<<IntValue(5)>>)>>),
     Predicate(CustomName, <<NoneValue>>)}

CheckLists == UNION {[1..n -> PredicatePool] : n \in 0..MaxChecks}

InitChecks ==
    /\ bot = [commands |-> <<>>, missing |-> {}]
    /\ adapter \in Adapters
    /\ commands_to_ignore = {}
    /\ app_commands = <<>>
    /\ built = FALSE
    /\ query = None
    /\ result = <<>>
    /\ raised = None
    /\ named = None
    /\ categories = None
    /\ RolesIdle
    /\ EmbedsIdle
    /\ PaginatorIdle
    /\ command_checks \in CheckLists
    /\ parsed = None
    /\ parse_raised = None

\* a handler of the instance's class parses the checks of one command
ParseChecks ==
    /\ parsed = None
    /\ parse_raised = None
    /\ parse_raised' = ParseChecksError(adapter, command_checks, 1)
    /\ parsed' = IF parse_raised' # None THEN None
                 ELSE Some(ParseChecksFrom(adapter, command_checks, 1, CommandChecks(<<>>, <<>>)))
    /\ UNCHANGED <<hostVars, rolesVars, command_checks, embedsVars, paginator>>

SpecChecks == InitChecks /\ [][ParseChecks]_vars

\* a predicate the extractor has nothing to read from: no captured state,
\* or a captured value that is no role reference, mapping or callable
Uninterpretable(check) ==
    \/ check.closure = <<>>
    \/ \A i \in 1..Len(check.closure) : check.closure[i].t = "none"

\* C24: the checks extractor never raises, whatever the predicates capture
\* (one integer role id, one string, a tuple of role references, a
\* permission mapping, another callable, any other value), and records
\* nothing for predicates it cannot interpret.
C24_ParseChecksNeverRaises ==
    /\ parse_raised = None
    /\ (parsed # None /\ \A i \in 1..Len(command_checks) : Uninterpretable(command_checks[i]))
          => parsed[1] = CommandChecks(<<>>, <<>>)

\* the role identifiers a "role" predicate captures: the one integer or
\* string, or the items of the tuple
CapturedRoles(check) ==
    IF CheckSkipped(check) \/ ~Contains(check.name, RoleWord) THEN <<>>
    ELSE Flatten([i \in 1..Len(check.closure) |->
            LET content == check.closure[i]
            IN IF content.t \in {"int", "str"} THEN <<content>>
               ELSE IF content.t = "tuple" THEN content.v
               ELSE <<>>])

\* one label for every true entry of the mappings another predicate captures
CapturedPermissions(check) ==
    IF CheckSkipped(check) \/ Contains(check.name, RoleWord) THEN <<>>
    ELSE Flatten([i \in 1..Len(check.closure) |->
            IF check.closure[i].t = "dict" THEN PermissionLabels(check.closure[i].v) ELSE <<>>])

\* C25: the extracted CommandChecks holds nothing from predicates whose name
\* contains "bot" or that capture nothing; the role identifiers every
\* "role" predicate captures are in checks.roles and only there; every other
\* predicate gives one permission label (underscores to spaces, title case)
\* per true entry of its mapping and none for a false entry.
C25_ChecksSplitByPredicateName ==
    parsed # None =>
        /\ parsed[1].roles =
              Flatten([i \in 1..Len(command_checks) |-> CapturedRoles(command_checks[i])])
        /\ parsed[1].permissions =
              Flatten([i \in 1..Len(command_checks) |-> CapturedPermissions(command_checks[i])])

MaxOverview == 3

MAX_CHARS_PER_FIELD == 1024

MAX_FIELDS_PER_EMBED == 25

RECURSIVE len(_)
len(pieces) == IF pieces = <<>> THEN 0 ELSE Len(pieces[1]) + len(Tail(pieces))

\* str(n) of an int
RECURSIVE str(_)
str(n) ==
    IF n < 0 THEN <<"-">> \o str(0 - n)
    ELSE IF n < 10 THEN <<DigitChars[n + 1]>>
    ELSE str(n \div 10) \o <<DigitChars[(n % 10) + 1]>>

\* AppCommand.mention
mention(command) ==
    IF command.type = "slash" THEN <<"</", command.name, ":">> \o str(command.id) \o <<">">>
    ELSE <<"**", command.name, "**">>

\* the f-string command_lines of the loop body
command_lines(command) ==
    LET type_ == IF command.type = "slash" THEN "Slash Command Details"
                 ELSE IF command.type = "user" THEN "User Command Details"
                 ELSE "Message Command Details"
        nsfw == IF command.nsfw THEN "*(NSFW)*" ELSE ""
    IN mention(command) \o <<" *(", type_, ")* ", nsfw, "\n", command.description, "\n\n">>

\* _create_base_embed(title, color, thumbnail)
_create_base_embed(title) == [title |-> title, fields |-> <<>>]

\* Embed.add_field(name="​", value=value, inline=False)
add_field(embed, value) == [embed EXCEPT !.fields = Append(@, value)]

\* one iteration of the loop of commands_overview_embeds over `command`
OverviewStep(st, command, field_chars, fields) ==
    LET lines == command_lines(command)
        opened == IF st.current_embed = None
                  THEN [st EXCEPT
                          !.current_embed =
                              Some(_create_base_embed(
                                  IF st.embeds = <<>> THEN "Commands Overview"
                                  ELSE "Commands Overview (continued)")),
                          !.current_field_chars = 0]
                  ELSE st
        filled == IF opened.current_field_chars + len(lines) <= field_chars
                  THEN [opened EXCEPT !.current_field = @ \o lines,
                                      !.current_field_chars = @ + len(lines)]
                  ELSE [opened EXCEPT
                          !.current_embed = Some(add_field(@[1], opened.current_field)),
                          !.current_field = lines,
                          !.current_field_chars = len(lines)]
    IN IF Len(filled.current_embed[1].fields) >= fields
       THEN [filled EXCEPT !.embeds = Append(@, filled.current_embed[1]),
                           !.current_embed = None]
       ELSE filled

RECURSIVE OverviewLoop(_, _, _, _, _)
OverviewLoop(st, cmds, i, field_chars, fields) ==
    IF i > Len(cmds) THEN st
    ELSE OverviewLoop(OverviewStep(st, cmds[i], field_chars, fields), cmds, i + 1,
                      field_chars, fields)

Min(a, b) == IF a < b THEN a ELSE b

\* commands_overview_embeds(commands, max_field_chars=, max_fields=)
commands_overview_embeds(cmds, field_chars, fields) ==
    LET st == OverviewLoop([embeds |-> <<>>, current_embed |-> None,
                            current_field |-> <<>>, current_field_chars |-> 0],
                           cmds, 1, Min(field_chars, MAX_CHARS_PER_FIELD),
                           Min(fields, MAX_FIELDS_PER_EMBED))
    IN IF st.current_embed # None
       THEN Append(st.embeds, add_field(st.current_embed[1], st.current_field))
       ELSE st.embeds

\* the commands an overview is asked for
OverviewPool ==
    {[type |-> "slash", name |-> "ping", id |-> 42, nsfw |-> FALSE, description |-> "Pong"],
     [type |-> "user", name |-> "Ban", id |-> 43, nsfw |-> FALSE, description |-> ""],
     [type |-> "message", name |-> "Report", id |-> 44, nsfw |-> TRUE,
      description |-> "report a message"]}

\* lists of distinct commands, as get_all_commands returns them
OverviewLists ==
    {q \in UNION {[1..n -> OverviewPool] : n \in 0..MaxOverview} :
        \A i, j \in 1..Len(q) : i # j => q[i] # q[j]}

\* limits below, between and above the lengths of one line and of two, and
\* above the caps
FieldCharLimits == {1, 66, 90, MAX_CHARS_PER_FIELD + 1}

FieldLimits == {1, 2, MAX_FIELDS_PER_EMBED + 1}

InitEmbeds ==
    /\ HostIdle
    /\ RolesIdle
    /\ ChecksIdle
    /\ PaginatorIdle
    /\ help_commands \in OverviewLists
    /\ max_field_chars \in FieldCharLimits
    /\ max_fields \in FieldLimits
    /\ overview = None

\* a help command asks for the overview of the commands it has queried
OverviewEmbeds ==
    /\ overview = None
    /\ overview' = Some(commands_overview_embeds(help_commands, max_field_chars, max_fields))
    /\ UNCHANGED <<hostVars, rolesVars, checksVars, help_commands, max_field_chars, max_fields,
                   paginator>>

SpecEmbeds == InitEmbeds /\ [][OverviewEmbeds]_vars

\* the field values of the returned embeds, in order
AllFields == Flatten([e \in 1..Len(overview[1]) |-> overview[1][e].fields])

\* C27: for a non-empty command list, max_fields >= 1 and max_field_chars
\* >= 1, the line of every input command appears in a field of a returned
\* embed exactly once, and the lines appear in input order: the field
\* values, read in order, are the lines of the commands in input order.
C27_EveryLineOnceInOrder ==
    (overview # None /\ Len(help_commands) > 0) =>
        Flatten(AllFields) =
            Flatten([i \in 1..Len(help_commands) |-> command_lines(help_commands[i])])

\* C28: when each single line fits, no field value is longer than
\* min(max_field_chars, 1024) and no embed has more than min(max_fields, 25)
\* fields.
C28_FieldAndEmbedLimits ==
    (/\ overview # None
     /\ \A i \in 1..Len(help_commands) :
           len(command_lines(help_commands[i])) <= Min(max_field_chars, MAX_CHARS_PER_FIELD))
    => /\ \A k \in 1..Len(AllFields) :
             len(AllFields[k]) <= Min(max_field_chars, MAX_CHARS_PER_FIELD)
       /\ \A e \in 1..Len(overview[1]) :
             Len(overview[1][e].fields) <= Min(max_fields, MAX_FIELDS_PER_EMBED)

\* C29: what a query returns does not depend on its locale: with a locale
\* it returns as many commands as without one, in the same order, with the
\* same ids and the same qualified names.
C29_LocaleIndependentSelection ==
    (query # None /\ query[1].locale # None) =>
        LET plain == get_all_commands(app_commands, [query[1] EXCEPT !.locale = None])
        IN /\ Len(result) = Len(plain)
           /\ \A j \in 1..Len(result) :
                 j <= Len(plain) =>
                    /\ result[j].id = plain[j].id
                    /\ result[j]._name = plain[j].name

(***************************************************************************)
(* Paginator                                                               *)
(***************************************************************************)
MaxEmbeds == 3

\* the embeds a Paginator is given
EmbedPool ==
    {_create_base_embed("Commands Overview"),
     _create_base_embed("Commands Overview (continued)"),
     _create_base_embed("Slash Command Details")}

EmbedLists == UNION {[1..n -> EmbedPool] : n \in 0..MaxEmbeds}

\* Paginator._update_state
_update_state(self) ==
    [self EXCEPT
        !._page_counter = str(self.index + 1) \o <<" / ">> \o str(Len(self.embeds)),
        !._first_page = (self.index = 0),
        !._prev_page = (self.index = 0),
        !._last_page = (self.index = Len(self.embeds) - 1),
        !._next_page = (self.index = Len(self.embeds) - 1)]

\* Paginator.__init__(embeds=embeds): _page_counter is the label of that
\* button, the other four fields are the `disabled` flags of theirs;
\* `message` is the embed the message shows and `error` the exception the
\* last callback ended with
Paginator(embeds) ==
    _update_state([embeds |-> embeds, index |-> 0, _page_counter |-> <<>>,
                   _first_page |-> FALSE, _prev_page |-> FALSE, _next_page |-> FALSE,
                   _last_page |-> FALSE,
                   message |-> IF embeds = <<>> THEN None ELSE Some(embeds[1]),
                   error |-> None])

\* inter.response.edit_message(embed=self.embeds[self.index], view=self):
\* a negative index counts from the end
edit_message(self) ==
    LET n == Len(self.embeds)
    IN IF self.index >= n \/ self.index < 0 - n
       THEN [self EXCEPT !.error = Some("IndexError")]
       ELSE [self EXCEPT
               !.message = Some(self.embeds[IF self.index < 0 THEN n + self.index + 1
                                            ELSE self.index + 1]),
               !.error = None]

InitPaginator ==
    /\ HostIdle
    /\ RolesIdle
    /\ ChecksIdle
    /\ EmbedsIdle
    /\ paginator \in {Some(Paginator(embeds)) : embeds \in EmbedLists}

\* a user presses "First Page" (a disabled button cannot be pressed)
FirstPage ==
    /\ ~paginator[1]._first_page
    /\ paginator' = Some(edit_message(_update_state([paginator[1] EXCEPT !.index = 0])))
    /\ UNCHANGED <<hostVars, rolesVars, checksVars, embedsVars>>

\* a user presses "Prev Page"
PrevPage ==
    /\ ~paginator[1]._prev_page
    /\ paginator[1].index > 0 - MaxEmbeds
    /\ paginator' = Some(edit_message(_update_state([paginator[1] EXCEPT !.index = @ - 1])))
    /\ UNCHANGED <<hostVars, rolesVars, checksVars, embedsVars>>

\* a user presses "Next Page"
NextPage ==
    /\ ~paginator[1]._next_page
    /\ paginator[1].index < MaxEmbeds
    /\ paginator' = Some(edit_message(_update_state([paginator[1] EXCEPT !.index = @ + 1])))
    /\ UNCHANGED <<hostVars, rolesVars, checksVars, embedsVars>>

\* a user presses "Last Page"
LastPage ==
    /\ ~paginator[1]._last_page
    /\ paginator' = Some(edit_message(_update_state(
                        [paginator[1] EXCEPT !.index = Len(paginator[1].embeds) - 1])))
    /\ UNCHANGED <<hostVars, rolesVars, checksVars, embedsVars>>

NextPaginator == FirstPage \/ PrevPage \/ NextPage \/ LastPage

SpecPaginator == InitPaginator /\ [][NextPaginator]_vars

\* C30: for any list of embeds, the empty and the one-element list
\* included, after any presses of enabled buttons the index is between 0
\* and len - 1, First and Prev are disabled exactly when the index is 0,
\* Next and Last exactly when it is len - 1, and the page counter reads
\* index + 1 of len.
C30_PaginatorIndexInRange ==
    paginator # None =>
        LET self == paginator[1]
        IN /\ 0 <= self.index
           /\ self.index <= Len(self.embeds) - 1
           /\ self._first_page = (self.index = 0)
           /\ self._prev_page = (self.index = 0)
           /\ self._next_page = (self.index = Len(self.embeds) - 1)
           /\ self._last_page = (self.index = Len(self.embeds) - 1)
           /\ self._page_counter = str(self.index + 1) \o <<" / ">> \o str(Len(self.embeds))

====
